---- MODULE Spec2Model ----
(***************************************************************************)
(* Model of bot.py, the holiday/toast Telegram bot.                        *)
(*                                                                         *)
(* A text (Python str) is a sequence of symbols.  A symbol is one          *)
(* character, except that a word whose spelling never matters is one       *)
(* symbol: the format field name "holiday", the word "Segodnya" of the     *)
(* reply header, and each fixed reply, which is a one-symbol text.         *)
(***************************************************************************)
EXTENDS Integers, Sequences, FiniteSets, TLC

VARIABLES
    toastsFile,       \* content of toasts.json on disk (TOASTS_PATH)
    TOAST_TEMPLATES,  \* module global set at import time by load_toasts()
    cloudscraper,     \* TRUE iff "import cloudscraper" succeeded
    site,             \* the marked elements of the page the site serves
    clock,            \* the local calendar date, date.today()
    inbox,            \* updates not yet polled from Telegram, oldest first
    task,             \* one record per update taken from the inbox
    running,          \* id of the task that occupies the event loop, 0 if none
    imported,         \* TRUE once the module-level code of bot.py has run
    html,             \* the marked elements handed to a parse_holidays call
    parsed            \* that call: whether it returned, and the list returned

vars == <<toastsFile, TOAST_TEMPLATES, cloudscraper, site, clock, inbox, task,
          running, imported, html, parsed>>

----------------------------------------------------------------------------
(* Bounds *)

\* most updates delivered in one run of SpecConcurrent
MaxReq == 2
\* most marked elements on a page given to parse_holidays in SpecParse
MaxItems == 3
\* most entries of the JSON array / keys of the JSON object in SpecLoad
MaxEntries == 3

----------------------------------------------------------------------------
(* Texts *)

Range(s) == {s[i] : i \in 1..Len(s)}

\* all sequences over S of length 0..n
SeqsUpTo(S, n) == UNION {[1..k -> S] : k \in 0..n}

\* str.isspace() of one character
IsSpace(c) == c \in {" ", "\n", "\t"}

RECURSIVE lstrip(_)
lstrip(s) == IF s # <<>> /\ IsSpace(Head(s)) THEN lstrip(Tail(s)) ELSE s

RECURSIVE rstrip(_)
rstrip(s) ==
    IF s # <<>> /\ IsSpace(s[Len(s)]) THEN rstrip(SubSeq(s, 1, Len(s) - 1)) ELSE s

\* str.strip(): leading and trailing whitespace removed, inner whitespace kept
strip(s) == rstrip(lstrip(s))

\* number of (possibly overlapping) occurrences of text h in text s
Occurrences(h, s) ==
    Cardinality({i \in 1..(Len(s) - Len(h) + 1) : SubSeq(s, i, i + Len(h) - 1) = h})

----------------------------------------------------------------------------
(* load_toasts: toasts.json -> TOAST_TEMPLATES *)

\* A JSON value is [type, str, items]: str is the text of a string, items are
\* the entries of an array or, for an object, its keys in file order.
JStr(s) == [type |-> "string", str |-> s, items |-> <<>>]
JNum == [type |-> "number", str |-> <<>>, items |-> <<>>]
JNull == [type |-> "null", str |-> <<>>, items |-> <<>>]
JArr(xs) == [type |-> "array", str |-> <<>>, items |-> xs]
JObj(ks) == [type |-> "object", str |-> <<>>, items |-> ks]
\* a file whose text json.loads rejects
NotJson == [type |-> "invalid", str |-> <<>>, items |-> <<>>]
\* no file at TOASTS_PATH
Missing == [type |-> "missing", str |-> <<>>, items |-> <<>>]

\* "for t in data": the values Python's iteration of a decoded value yields;
\* a list yields its entries, a dict its keys, a str its characters
Iterate(data) ==
    CASE data.type = "array" -> data.items
      [] data.type = "object" -> data.items
      [] data.type = "string" -> [i \in 1..Len(data.str) |-> JStr(<<data.str[i]>>)]
      [] OTHER -> <<>>

\* iter(data) raises TypeError for None, numbers and booleans
NotIterable(data) == data.type \in {"number", "null"}

\* the filter of the comprehension: isinstance(t, str) and t.strip()
KeepEntry(t) == t.type = "string" /\ strip(t.str) # <<>>

RECURSIVE Comprehension(_)
Comprehension(ts) ==
    IF ts = <<>> THEN <<>>
    ELSE (IF KeepEntry(Head(ts)) THEN <<Head(ts).str>> ELSE <<>>)
         \o Comprehension(Tail(ts))

\* load_toasts(): both except branches return []
load_toasts(file) ==
    IF file.type = "missing" THEN <<>>          \* FileNotFoundError
    ELSE IF file.type = "invalid" THEN <<>>     \* json.JSONDecodeError
    ELSE IF NotIterable(file) THEN <<>>         \* TypeError
    ELSE Comprehension(Iterate(file))

----------------------------------------------------------------------------
(* parse_holidays: the marked elements of a page -> holiday names *)

\* el.get_text(strip=True) of a marked element holding one text node
get_text(el) == strip(el)

\* holidays = [el.get_text(strip=True) for el in items if el.get_text(strip=True)]
RECURSIVE Texts(_)
Texts(items) ==
    IF items = <<>> THEN <<>>
    ELSE (IF get_text(Head(items)) # <<>> THEN <<get_text(Head(items))>> ELSE <<>>)
         \o Texts(Tail(items))

\* the loop over holidays with the set seen and the list unique
RECURSIVE DedupLoop(_, _, _)
DedupLoop(holidays, seen, out) ==
    IF holidays = <<>> THEN out
    ELSE IF Head(holidays) \in seen THEN DedupLoop(Tail(holidays), seen, out)
    ELSE DedupLoop(Tail(holidays), seen \cup {Head(holidays)},
                   Append(out, Head(holidays)))

\* a loop that keeps the last occurrence of a name, not the first
RECURSIVE DedupKeepLast(_)
DedupKeepLast(holidays) ==
    IF holidays = <<>> THEN <<>>
    ELSE IF Head(holidays) \in Range(Tail(holidays)) THEN DedupKeepLast(Tail(holidays))
    ELSE <<Head(holidays)>> \o DedupKeepLast(Tail(holidays))

UniqueKeepLast(holidays) == DedupKeepLast(holidays)
Unique(holidays) == DedupLoop(holidays, {}, <<>>)

parse_holidays(page) == Unique(Texts(page))

----------------------------------------------------------------------------
(* build_toast and the reply texts *)

\* result of a call: the exception that left it ("none" if it returned) and
\* the text it returned
Returned(text) == [exc |-> "none", text |-> text]
Raised(e) == [exc |-> e, text |-> <<>>]

\* index of the first "}" of t at or after i, 0 if there is none
RECURSIVE FindClose(_, _)
FindClose(t, i) ==
    IF i > Len(t) THEN 0 ELSE IF t[i] = "}" THEN i ELSE FindClose(t, i + 1)

\* template.format(holiday=h) scanned from position i with output acc:
\* "{{" and "}}" are literal braces, "{holiday}" is replaced by h, any other
\* field raises (KeyError for a name, IndexError for the empty field), and a
\* brace that opens or closes nothing raises ValueError
RECURSIVE FormatFrom(_, _, _, _)
FormatFrom(t, i, h, acc) ==
    IF i > Len(t) THEN Returned(acc)
    ELSE IF t[i] = "{" THEN
        IF i = Len(t) THEN Raised("ValueError")
        ELSE IF t[i + 1] = "{" THEN FormatFrom(t, i + 2, h, Append(acc, "{"))
        ELSE LET close == FindClose(t, i + 1)
                 field == SubSeq(t, i + 1, close - 1)
             IN  IF close = 0 THEN Raised("ValueError")
                 ELSE IF "{" \in Range(field) THEN Raised("ValueError")
                 ELSE IF field = <<"holiday">> THEN FormatFrom(t, close + 1, h, acc \o h)
                 ELSE IF field = <<>> THEN Raised("IndexError")
                 ELSE Raised("KeyError")
    ELSE IF t[i] = "}" THEN
        IF i < Len(t) /\ t[i + 1] = "}" THEN FormatFrom(t, i + 2, h, Append(acc, "}"))
        ELSE Raised("ValueError")
    ELSE FormatFrom(t, i + 1, h, Append(acc, t[i]))

format(template, h) == FormatFrom(template, 1, h, <<>>)

Digit(n) == <<"0", "1", "2", "3", "4", "5", "6", "7", "8", "9">>[n + 1]

\* %d and %m: two digits, zero-padded
Pad2(n) == <<Digit(n \div 10), Digit(n % 10)>>

\* %Y of a four-digit year
Year4(y) ==
    <<Digit(y \div 1000), Digit((y \div 100) % 10), Digit((y \div 10) % 10), Digit(y % 10)>>

\* date.strftime("%d.%m.%Y")
strftime(d) == Pad2(d.day) \o <<".">> \o Pad2(d.month) \o <<".">> \o Year4(d.year)

\* the reply of the except branch of compose_message
SITE_SILENT == <<"Ne mogu uznat' prazdniki - sajt molchit. Poprobujte pozzhe.">>
\* the reply for an empty holiday list
NO_HOLIDAY == <<"Segodnya ne nashel prazdnikov. No povod pridumat' neslozhno ;)">>
\* the reply of handle_start
HELP_TEXT == <<"Privet! Ya podskazhu, kakoj segodnya prazdnik. ...">>

\* the f-string of compose_message, "Segodnya {today} - {holiday}\n\n" "\n{toast}",
\* first without its second literal's newline, then as written
ReplyOneBlankLine(today, holiday, toast) ==
    <<"Segodnya", " ">> \o today \o <<" ", "EM DASH", " ">> \o holiday
        \o <<"\n", "\n">> \o toast
Reply(today, holiday, toast) ==
    <<"Segodnya", " ">> \o today \o <<" ", "EM DASH", " ">> \o holiday
        \o <<"\n", "\n">> \o <<"\n">> \o toast

----------------------------------------------------------------------------
(* Inputs *)

good1 == <<"Z", "a", " ", "{", "holiday", "}", "!">>
good2 == <<"{", "holiday", "}", ":", " ", "u", "r", "a">>
plain == <<"U", "r", "a", "!">>
keyErr == <<"Z", "a", " ", "{", "name", "}">>
loneBrace == <<"1", "0", "0", "%", " ", "}">>
positional == <<"{", "}", "!">>
twice == <<"{", "holiday", "}", " ", "{", "holiday", "}">>
escaped == <<"{", "{", "holiday", "}", "}">>
echo == <<"A", " ", "{", "holiday", "}">>

\* contents of toasts.json the bot is started with
ToastFiles ==
    { Missing, NotJson, JNum, JObj(<<JStr(good1)>>), JArr(<<>>),
      JArr(<<JStr(good1)>>), JArr(<<JStr(good1), JStr(good2)>>),
      JArr(<<JNum, JStr(<<" ">>), JStr(plain)>>), JArr(<<JStr(keyErr)>>),
      JArr(<<JStr(loneBrace)>>), JArr(<<JStr(positional)>>),
      JArr(<<JStr(twice), JStr(escaped)>>), JArr(<<JStr(echo)>>) }

\* entries of the arrays, keys of the objects and strings of SpecLoad
Entries ==
    { JNum, JNull, JArr(<<>>), JStr(<<>>), JStr(<<" ">>), JStr(<<" ", "x">>),
      JStr(good1) }
Keys == {e \in Entries : e.type = "string"}
Injective(ks) == \A i, j \in 1..Len(ks) : ks[i] = ks[j] => i = j

BoundedFiles ==
    {Missing, NotJson, JNum, JNull}
        \cup Keys
        \cup {JArr(xs) : xs \in SeqsUpTo(Entries, MaxEntries)}
        \cup {JObj(ks) : ks \in {k \in SeqsUpTo(Keys, MaxEntries) : Injective(k)}}

\* raw texts of marked elements
RawTexts ==
    { <<>>, <<" ">>, <<"A">>, <<"B">>, <<" ", "A">>, <<"A", "\n">>,
      <<"\t", "A", " ", "B", " ">>, <<"A", "B">> }

\* pages the site serves to the bot
Pages ==
    { <<>>,
      << <<" ">>, <<>> >>,
      << <<"A">>, <<"B">>, <<"A">> >>,
      << <<" ", "A", "B", " ">>, <<" ">> >> }

Dates ==
    { [day |-> 2, month |-> 11, year |-> 2026],
      [day |-> 31, month |-> 12, year |-> 1999],
      [day |-> 10, month |-> 1, year |-> 2030] }

\* an update: the bot command its text starts with ("other" for a command
\* the bot registers no handler for, "none" for a message that is no command)
\* and the type of its chat
Messages ==
    [command : {"start", "povod", "holiday", "other", "none"},
     chat : {"private", "group", "supergroup"}]

\* HTTP status codes of the responses
StatusCodes == {200, 304, 403, 503}

\* what one client.get(HOLIDAY_URL, timeout=15) can do: raise (timeout,
\* connection failure) or return a response
\* the record of one GET: the client that issued it and what it did
Attempt(client, o) == [client |-> client, kind |-> o.kind, status |-> o.status]
GetOutcomes ==
    {[kind |-> "raise", status |-> 0]}
        \cup {[kind |-> "resp", status |-> s] : s \in StatusCodes}

\* resp.text: the page for a 200, a body without marked elements otherwise
ResponseText(o) == IF o.status = 200 THEN site ELSE <<>>

----------------------------------------------------------------------------
(* Routing: dp.message.register, in this order *)

\* the same registrations with the chat-type filter first, then as written
RegisteredPrivateFirst == <<"handle_private_chat", "handle_start", "handle_prazdnik">>
Registered == <<"handle_start", "handle_prazdnik", "handle_private_chat">>

\* the filter each callback is registered with
Filter(callback, m) ==
    CASE callback = "handle_start" -> m.command \in {"start"}
      [] callback = "handle_prazdnik" -> m.command \in {"povod", "holiday"}
      [] callback = "handle_private_chat" -> m.chat = "private"

\* the first registered callback whose filter passes, "unhandled" if none
RECURSIVE FirstMatch(_, _)
FirstMatch(callbacks, m) ==
    IF callbacks = <<>> THEN "unhandled"
    ELSE IF Filter(Head(callbacks), m) THEN Head(callbacks)
    ELSE FirstMatch(Tail(callbacks), m)

Route(m) == FirstMatch(Registered, m)

----------------------------------------------------------------------------
(* fetch_holidays and compose_message *)

\* resp.raise_for_status() raises for 4xx and 5xx (first: for 5xx alone)
raise_for_status_5xx(status) == status \in 500..599
raise_for_status(status) == status \in 400..599

\* _request(client) raises: the GET raised or raise_for_status did
RequestFailed(o) == o.kind = "raise" \/ raise_for_status(o.status)


\* "if cloudscraper is None: raise"
NoFallback == ~cloudscraper

\* what fetch_holidays hands to its caller
FetchRaised == [raised |-> TRUE, holidays |-> <<>>]
FetchReturned(o) == [raised |-> FALSE, holidays |-> parse_holidays(ResponseText(o))]
NotFetched == [raised |-> FALSE, holidays |-> <<>>]

\* random.choice(seq) picks an index; on an empty seq it raises IndexError
Choices(seq) == IF seq = <<>> THEN {0} ELSE 1..Len(seq)

\* build_toast that returns the chosen template as it is, format not called
build_toast_unformatted(holiday, ti) ==
    IF TOAST_TEMPLATES = <<>> THEN Raised("IndexError")
    ELSE Returned(TOAST_TEMPLATES[ti])

\* build_toast(holiday) with the template of index ti chosen
build_toast(holiday, ti) ==
    IF TOAST_TEMPLATES = <<>> THEN Raised("IndexError")
    ELSE format(TOAST_TEMPLATES[ti], holiday)

\* what a call of compose_message ends with
Outcome(exc, reply, holiday, template) ==
    [exc |-> exc, reply |-> reply, holiday |-> holiday, template |-> template]

\* compose_message without its except branch, and with it
OnFetchErrorReraise == Outcome("RequestException", <<>>, <<>>, <<>>)
OnFetchError == Outcome("none", SITE_SILENT, <<>>, <<>>)

\* "if not holidays" answered with the text of the except branch, and as written
OnEmptySilent == Outcome("none", SITE_SILENT, <<>>, <<>>)
OnEmpty == Outcome("none", NO_HOLIDAY, <<>>, <<>>)

\* lines 126-133 with holiday of index hi and template of index ti chosen
ComposeToast(fetched, today, hi, ti) ==
    LET holiday == fetched.holidays[hi]
        toast == build_toast(holiday, ti)
        template == IF TOAST_TEMPLATES = <<>> THEN <<>> ELSE TOAST_TEMPLATES[ti]
    IN  IF toast.exc # "none" THEN Outcome(toast.exc, <<>>, holiday, template)
        ELSE Outcome("none", Reply(strftime(today), holiday, toast.text),
                     holiday, template)

\* compose_message after the await of the fetch
compose_message(fetched, today, hi, ti) ==
    IF fetched.raised THEN OnFetchError
    ELSE IF fetched.holidays = <<>> THEN OnEmpty
    ELSE ComposeToast(fetched, today, hi, ti)

\* asyncio.to_thread(fetch_holidays): the fetch of task i runs on a worker
\* thread and the event loop stays free (0); called inline it would occupy it
call_inline(i) == i
to_thread(i) == 0

----------------------------------------------------------------------------
(* Tasks *)

\* dp.start_polling handles each update in a task of its own; a handler runs on
\* the event loop from one await to the next, which is one action here.  The
\* fetch runs on a thread of the loop's default executor, whose threads
\* outnumber the updates of a run, so a fetch never waits for a thread.

NewTask(m, handler) ==
    [msg |-> m, handler |-> handler, pc |-> "done",
     gets |-> <<>>, fetched |-> NotFetched,
     holiday |-> <<>>, template |-> <<>>, reply |-> <<>>, replied |-> FALSE,
     exc |-> "none"]

Ids == 1..Len(task)

\* the event loop takes the next update when no task occupies it
CanDispatch(handler) ==
    /\ imported
    /\ running = 0
    /\ inbox # <<>>
    /\ Route(Head(inbox)) = handler

BotUnchanged == UNCHANGED <<toastsFile, TOAST_TEMPLATES, cloudscraper, site, clock,
                            imported, html, parsed>>

\* module level: TOAST_TEMPLATES = load_toasts()
ImportModule ==
    /\ ~imported
    /\ imported' = TRUE
    /\ TOAST_TEMPLATES' = load_toasts(toastsFile)
    /\ UNCHANGED <<toastsFile, cloudscraper, site, clock, inbox, task, running,
                   html, parsed>>

\* handle_start: message.answer(help text)
handle_start ==
    /\ CanDispatch("handle_start")
    /\ task' = Append(task, [NewTask(Head(inbox), "handle_start") EXCEPT
                                !.reply = HELP_TEXT, !.replied = TRUE])
    /\ inbox' = Tail(inbox)
    /\ UNCHANGED running
    /\ BotUnchanged

\* "reply = await compose_message()" up to the await of the fetch inside it:
\* the fetch of the new task is handed to asyncio.to_thread
AwaitCompose(handler) ==
    /\ task' = Append(task, [NewTask(Head(inbox), handler) EXCEPT !.pc = "primary"])
    /\ inbox' = Tail(inbox)
    /\ running' = to_thread(Len(task) + 1)
    /\ BotUnchanged

handle_prazdnik ==
    /\ CanDispatch("handle_prazdnik")
    /\ AwaitCompose("handle_prazdnik")

handle_private_chat ==
    /\ CanDispatch("handle_private_chat")
    /\ AwaitCompose("handle_private_chat")

\* no filter passes: the update is dropped without a reply
Unhandled ==
    /\ CanDispatch("unhandled")
    /\ task' = Append(task, NewTask(Head(inbox), "unhandled"))
    /\ inbox' = Tail(inbox)
    /\ UNCHANGED running
    /\ BotUnchanged

\* fetch_holidays on its thread: response = _request(sess)
PrimaryGet(i, o) ==
    /\ task[i].pc = "primary"
    /\ task' = [task EXCEPT ![i] =
          IF ~RequestFailed(o)
          THEN [@ EXCEPT !.gets = Append(@, Attempt("requests", o)),
                         !.fetched = FetchReturned(o), !.pc = "fetched"]
          ELSE IF NoFallback
          THEN [@ EXCEPT !.gets = Append(@, Attempt("requests", o)),
                         !.fetched = FetchRaised, !.pc = "fetched"]
          ELSE [@ EXCEPT !.gets = Append(@, Attempt("requests", o)),
                         !.pc = "fallback"]]
    /\ UNCHANGED <<inbox, running>>
    /\ BotUnchanged

\* fetch_holidays on its thread: response = _request(scraper)
FallbackGet(i, o) ==
    /\ task[i].pc = "fallback"
    /\ task' = [task EXCEPT ![i] =
          IF ~RequestFailed(o)
          THEN [@ EXCEPT !.gets = Append(@, Attempt("cloudscraper", o)),
                         !.fetched = FetchReturned(o), !.pc = "fetched"]
          ELSE [@ EXCEPT !.gets = Append(@, Attempt("cloudscraper", o)),
                         !.fetched = FetchRaised, !.pc = "fetched"]]
    /\ UNCHANGED <<inbox, running>>
    /\ BotUnchanged

\* the task resumes with the result of its own fetch, composes the reply and
\* sends it with message.reply; an exception out of compose_message ends the
\* handler without a reply
Resume(i) ==
    /\ task[i].pc = "fetched"
    /\ running \in {0, i}
    /\ \E hi \in Choices(task[i].fetched.holidays), ti \in Choices(TOAST_TEMPLATES) :
          LET out == compose_message(task[i].fetched, clock, hi, ti)
          IN  task' = [task EXCEPT ![i] =
                  [@ EXCEPT !.pc = "done", !.exc = out.exc, !.reply = out.reply,
                            !.replied = (out.exc = "none"),
                            !.holiday = out.holiday, !.template = out.template]]
    /\ running' = 0
    /\ UNCHANGED inbox
    /\ BotUnchanged

Next ==
    \/ ImportModule
    \/ handle_start
    \/ handle_prazdnik
    \/ handle_private_chat
    \/ Unhandled
    \/ \E i \in Ids, o \in GetOutcomes : PrimaryGet(i, o)
    \/ \E i \in Ids, o \in GetOutcomes : FallbackGet(i, o)
    \/ \E i \in Ids : Resume(i)

\* before the module is imported
InitBot(files, scrapers, pages, dates, inboxes) ==
    /\ toastsFile \in files
    /\ TOAST_TEMPLATES = <<>>
    /\ imported = FALSE
    /\ cloudscraper \in scrapers
    /\ site \in pages
    /\ clock \in dates
    /\ inbox \in inboxes
    /\ task = <<>>
    /\ running = 0
    /\ html = <<>>
    /\ parsed = [done |-> FALSE, unique |-> <<>>]

\* one update, every environment
Init == InitBot(ToastFiles, BOOLEAN, Pages, Dates, {<<m>> : m \in Messages})

Spec == Init /\ [][Next]_vars

\* up to MaxReq updates in one environment
ConcurrentMessages ==
    { [command |-> "start", chat |-> "private"],
      [command |-> "povod", chat |-> "group"],
      [command |-> "none", chat |-> "private"],
      [command |-> "none", chat |-> "group"] }

InitConcurrent ==
    InitBot({JArr(<<JStr(good1)>>)}, BOOLEAN, {<< <<"A">>, <<"B">>, <<"A">> >>},
            {[day |-> 2, month |-> 11, year |-> 2026]},
            SeqsUpTo(ConcurrentMessages, MaxReq))

SpecConcurrent == InitConcurrent /\ [][Next]_vars

----------------------------------------------------------------------------
(* load_toasts and parse_holidays on their own *)

InitLoad ==
    InitBot(BoundedFiles, {TRUE}, {<<>>}, {[day |-> 2, month |-> 11, year |-> 2026]},
            {<<>>})

SpecLoad == InitLoad /\ [][ImportModule]_vars

\* a call parse_holidays(html)
CallParseHolidays ==
    /\ ~parsed.done
    /\ parsed' = [done |-> TRUE, unique |-> parse_holidays(html)]
    /\ UNCHANGED <<toastsFile, TOAST_TEMPLATES, cloudscraper, site, clock, inbox,
                   task, running, imported, html>>

InitParse ==
    /\ toastsFile = Missing
    /\ TOAST_TEMPLATES = <<>>
    /\ imported = FALSE
    /\ cloudscraper = TRUE
    /\ site = <<>>
    /\ clock = [day |-> 2, month |-> 11, year |-> 2026]
    /\ inbox = <<>>
    /\ task = <<>>
    /\ running = 0
    /\ html \in SeqsUpTo(RawTexts, MaxItems)
    /\ parsed = [done |-> FALSE, unique |-> <<>>]

SpecParse == InitParse /\ [][CallParseHolidays]_vars

----------------------------------------------------------------------------
(* Properties *)

ComposeHandlers == {"handle_prazdnik", "handle_private_chat"}

\* task i was routed to a handler that awaits compose_message and has ended
Composed(i) == task[i].handler \in ComposeHandlers /\ task[i].pc = "done"

\* fetch_holidays of task i has ended
Fetched(i) == task[i].handler \in ComposeHandlers /\ task[i].pc \in {"fetched", "done"}

\* a GET that raised or whose response has a client or server error status
ErrorAttempt(g) == g.kind = "raise" \/ (g.status >= 400 /\ g.status <= 599)

\* a GET that raised or whose response status is not 2xx
Non2xxAttempt(g) == g.kind = "raise" \/ ~(g.status >= 200 /\ g.status <= 299)

\* every GET of task i failed and no further client was left to try
AllAttemptsFailed(i) ==
    /\ Fetched(i)
    /\ \A k \in 1..Len(task[i].gets) : ErrorAttempt(task[i].gets[k])
    /\ (cloudscraper => Len(task[i].gets) = 2)

\* C1: every request handled by handle_prazdnik or handle_private_chat ends
\* with a text returned by compose_message and sent, whatever the fetch did
\* and whatever the template store holds; no exception leaves compose_message.
C1_NoExceptionEscapes ==
    \A i \in Ids : Composed(i) =>
        /\ task[i].exc = "none"
        /\ task[i].replied
        /\ task[i].reply # <<>>

\* C2: when fetch_holidays raised (the primary GET failed and the fallback
\* was absent or failed too), compose_message returns the fixed "site is
\* silent" text, raises nothing, and picks neither a holiday nor a template.
C2_FetchErrorReply ==
    \A i \in Ids : Composed(i) /\ AllAttemptsFailed(i) =>
        /\ task[i].reply = SITE_SILENT
        /\ task[i].replied
        /\ task[i].exc = "none"
        /\ task[i].holiday = <<>>
        /\ task[i].template = <<>>

\* a request whose primary GET timed out and whose fallback GET got a 503
\* was answered with the fixed text
C2_Witness ==
    \E i \in Ids :
        /\ Composed(i)
        /\ cloudscraper
        /\ Len(task[i].gets) = 2
        /\ task[i].gets[1].kind = "raise"
        /\ task[i].gets[2].status = 503
        /\ task[i].reply = SITE_SILENT

\* the last GET of task i succeeded and its page yields no holiday name
FetchedNothing(i) ==
    /\ Fetched(i)
    /\ task[i].gets # <<>>
    /\ ~ErrorAttempt(task[i].gets[Len(task[i].gets)])
    /\ \A el \in Range(ResponseText(task[i].gets[Len(task[i].gets)])) :
           \A k \in 1..Len(el) : IsSpace(el[k])

\* C3: when the fetch succeeds with an empty holiday list, compose_message
\* returns the fixed "no holiday found" text, which differs from the
\* fetch-failure text, whatever the template store holds; no template is picked.
C3_NoHolidayReply ==
    \A i \in Ids : Composed(i) /\ FetchedNothing(i) =>
        /\ task[i].reply = NO_HOLIDAY
        /\ task[i].reply # SITE_SILENT
        /\ task[i].replied
        /\ task[i].exc = "none"
        /\ task[i].holiday = <<>>
        /\ task[i].template = <<>>

\* with an empty template store, a page of blank marked elements was answered
\* with the "no holiday found" text
C3_Witness ==
    \E i \in Ids :
        /\ Composed(i)
        /\ FetchedNothing(i)
        /\ site # <<>>
        /\ task[i].gets[Len(task[i].gets)].status = 200
        /\ TOAST_TEMPLATES = <<>>
        /\ task[i].reply = NO_HOLIDAY

\* x is raw with its leading and trailing whitespace removed
IsTrimOf(x, raw) ==
    /\ x # <<>> => ~IsSpace(x[1]) /\ ~IsSpace(x[Len(x)])
    /\ \E a \in 0..Len(raw) :
          /\ a + Len(x) <= Len(raw)
          /\ x = SubSeq(raw, a + 1, a + Len(x))
          /\ \A k \in 1..Len(raw) : (k <= a \/ k > a + Len(x)) => IsSpace(raw[k])

\* position of the first element of page whose trimmed text is x
FirstSeen(x, page) ==
    CHOOSE k \in 1..Len(page) :
        /\ IsTrimOf(x, page[k])
        /\ \A m \in 1..(k - 1) : ~IsTrimOf(x, page[m])

\* C4: parse_holidays returns the trimmed non-empty texts of the marked
\* elements without repetition, each at the place of its first occurrence:
\* no element repeats, the set of strings is that of the non-empty trimmed
\* inputs, and their first-seen order is kept.
C4_ParseHolidays ==
    parsed.done =>
        LET u == parsed.unique IN
        /\ \A i, j \in 1..Len(u) : u[i] = u[j] => i = j
        /\ \A i \in 1..Len(u) : u[i] # <<>> /\ \E k \in 1..Len(html) : IsTrimOf(u[i], html[k])
        /\ \A k \in 1..Len(html) :
              (\E c \in 1..Len(html[k]) : ~IsSpace(html[k][c])) =>
                  \E i \in 1..Len(u) : IsTrimOf(u[i], html[k])
        /\ \A i, j \in 1..Len(u) : i < j => FirstSeen(u[i], html) < FirstSeen(u[j], html)

\* the elements " A", "B", "A\n" were parsed to A, B
C4_Witness ==
    /\ parsed.done
    /\ html = << <<" ", "A">>, <<"B">>, <<"A", "\n">> >>
    /\ parsed.unique = << <<"A">>, <<"B">> >>

\* task i sent a reply made of a holiday and a toast
ToastSent(i) == Composed(i) /\ task[i].replied /\ task[i].holiday # <<>>

\* C5 as claimed: the reply contains the chosen holiday name exactly once.
C5_ExactlyOnce ==
    \A i \in Ids : ToastSent(i) => Occurrences(task[i].holiday, task[i].reply) = 1

\* t is pre, the placeholder {holiday}, post, with no brace in pre or post
OnePlaceholder(t, pre, post) ==
    /\ t = pre \o <<"{", "holiday", "}">> \o post
    /\ Range(pre) \cap {"{", "}"} = {}
    /\ Range(post) \cap {"{", "}"} = {}

Splits(t) == {p \in (0..Len(t)) \X (0..Len(t)) : p[1] + p[2] + 3 = Len(t)}

\* C5 as amended: when the chosen template is some text pre, one {holiday}
\* placeholder and some text post with no other brace, the reply is sent and
\* ends with pre, the holiday name, post: the name stands verbatim where the
\* placeholder was, and it stands a second time before the toast, at the end
\* of the header line, followed by three newlines.
C5_NameAtPlaceholder ==
    \A i \in Ids : Composed(i) /\ task[i].holiday # <<>> =>
        \A p \in Splits(task[i].template) :
            LET t == task[i].template
                h == task[i].holiday
                pre == SubSeq(t, 1, p[1])
                post == SubSeq(t, Len(t) - p[2] + 1, Len(t))
                tail == h \o <<"\n", "\n", "\n">> \o pre \o h \o post
                r == task[i].reply
            IN  OnePlaceholder(t, pre, post) =>
                    /\ task[i].replied
                    /\ Len(r) > Len(tail)
                    /\ SubSeq(r, Len(r) - Len(tail) + 1, Len(r)) = tail

\* the template "Za {holiday}!" was chosen for the holiday AB
C5_Witness ==
    \E i \in Ids :
        /\ ToastSent(i)
        /\ task[i].template = good1
        /\ task[i].holiday = <<"A", "B">>

\* value of a decimal digit
Val(c) ==
    CASE c = "0" -> 0 [] c = "1" -> 1 [] c = "2" -> 2 [] c = "3" -> 3 [] c = "4" -> 4
      [] c = "5" -> 5 [] c = "6" -> 6 [] c = "7" -> 7 [] c = "8" -> 8 [] c = "9" -> 9
      [] OTHER -> 0 - 1

\* d is the date as zero-padded day.month.year
IsDayMonthYear(d, date) ==
    /\ Len(d) = 10
    /\ d[3] = "." /\ d[6] = "."
    /\ \A k \in {1, 2, 4, 5, 7, 8, 9, 10} : Val(d[k]) >= 0
    /\ 10 * Val(d[1]) + Val(d[2]) = date.day
    /\ 10 * Val(d[4]) + Val(d[5]) = date.month
    /\ 1000 * Val(d[7]) + 100 * Val(d[8]) + 10 * Val(d[9]) + Val(d[10]) = date.year

\* C6 as claimed: every holiday-and-toast reply is the date, an em-dash, the
\* holiday name, one blank line, the toast.
C6_OneBlankLine ==
    \A i \in Ids : ToastSent(i) =>
        \E n \in 1..(Len(task[i].reply) - 9) :
            /\ IsDayMonthYear(SubSeq(task[i].reply, n, n + 9), clock)
            /\ SubSeq(task[i].reply, n + 10, Len(task[i].reply))
                   = <<" ", "EM DASH", " ">> \o task[i].holiday \o <<"\n", "\n">>
                         \o format(task[i].template, task[i].holiday).text

\* C6 as amended: when the fetched list and the template store are not
\* empty, a holiday of the list and a template of the store are chosen, and
\* either str.format raises on that template and no reply is sent, or the
\* reply is the word "Segodnya", a space, the date as zero-padded
\* day.month.year, an em-dash between spaces, the holiday name, three
\* newlines (two blank lines) and the template formatted with that name.
C6_ReplyLayout ==
    \A i \in Ids :
        Composed(i) /\ ~task[i].fetched.raised /\ task[i].fetched.holidays # <<>>
                /\ TOAST_TEMPLATES # <<>> =>
            LET r == task[i].reply
                toast == format(task[i].template, task[i].holiday)
            IN  /\ task[i].holiday \in Range(task[i].fetched.holidays)
                /\ task[i].template \in Range(TOAST_TEMPLATES)
                /\ \/ toast.exc # "none" /\ task[i].exc = toast.exc /\ ~task[i].replied
                   \/ /\ toast.exc = "none" /\ task[i].exc = "none" /\ task[i].replied
                      /\ SubSeq(r, 1, 2) = <<"Segodnya", " ">>
                      /\ IsDayMonthYear(SubSeq(r, 3, 12), clock)
                      /\ SubSeq(r, 13, Len(r))
                            = <<" ", "EM DASH", " ">> \o task[i].holiday
                                  \o <<"\n", "\n", "\n">> \o toast.text

\* a reply was sent on the 2nd of November for the second holiday of the page
C6_Witness ==
    \E i \in Ids :
        /\ ToastSent(i)
        /\ clock.day = 2
        /\ task[i].holiday = <<"B">>
        /\ task[i].template = good2

\* the entries of an array that are non-blank strings, in file order
RECURSIVE NonBlankStrings(_)
NonBlankStrings(xs) ==
    IF xs = <<>> THEN <<>>
    ELSE (IF Head(xs).type = "string" /\ \E k \in 1..Len(Head(xs).str) : ~IsSpace(Head(xs).str[k])
          THEN <<Head(xs).str>> ELSE <<>>) \o NonBlankStrings(Tail(xs))

\* C7: load_toasts never raises; for a missing file, a file that is no JSON
\* and a JSON value that is no array it returns the empty list; for an array
\* it returns the entries that are non-blank strings, in file order.
C7_LoadToasts ==
    imported =>
        TOAST_TEMPLATES =
            IF toastsFile.type = "array" THEN NonBlankStrings(toastsFile.items) ELSE <<>>

\* C8: each update is handled by exactly one rule, in registration order:
\* /start gets the help text in every chat, private ones too; /povod and
\* /holiday go to the holiday handler in every chat; any other message goes
\* to a compose_message handler iff its chat is private; otherwise nothing
\* handles it and no reply is ever sent.
C8_Routing ==
    \A i \in Ids :
        LET m == task[i].msg
            t == task[i]
        IN  /\ m.command = "start" <=> t.handler = "handle_start"
            /\ t.handler = "handle_start" => t.replied /\ t.reply = HELP_TEXT
            /\ m.command \in {"povod", "holiday"} <=> t.handler = "handle_prazdnik"
            /\ m.command \in {"other", "none"} =>
                   /\ m.chat = "private" <=> t.handler = "handle_private_chat"
                   /\ m.chat # "private" <=> t.handler = "unhandled"
            /\ t.handler = "unhandled" => ~t.replied /\ t.pc = "done" /\ t.gets = <<>>
            /\ t.handler \in ComposeHandlers =>
                   /\ t.pc # "done" => ~t.replied
                   /\ t.replied => t.reply # HELP_TEXT /\ t.gets # <<>>

\* /start in a private chat was answered with the help text
C8_Witness ==
    \E i \in Ids :
        /\ task[i].msg = [command |-> "start", chat |-> "private"]
        /\ task[i].handler = "handle_start"
        /\ task[i].reply = HELP_TEXT

InFlight(i) == task[i].pc \in {"primary", "fallback"}

\* the replies compose_message can end with for the fetch result of task i
OwnOutcomes(i) ==
    { compose_message(task[i].fetched, clock, hi, ti) :
          hi \in Choices(task[i].fetched.holidays), ti \in Choices(TOAST_TEMPLATES) }

\* C10: while the fetch of a request is in flight the event loop is free: the
\* next update can be dispatched, every other task whose fetch has ended can
\* resume and reply, every other fetch can proceed; and what a task ended
\* with is an outcome of compose_message for the result of its own fetch.
C10_LoopNotBlocked ==
    /\ \A i \in Ids : InFlight(i) =>
          /\ running = 0
          /\ inbox # <<>> =>
                ENABLED (handle_start \/ handle_prazdnik \/ handle_private_chat \/ Unhandled)
          /\ \A j \in Ids \ {i} :
                /\ task[j].pc = "fetched" => ENABLED Resume(j)
                /\ task[j].pc = "primary" => ENABLED (\E o \in GetOutcomes : PrimaryGet(j, o))
                /\ task[j].pc = "fallback" => ENABLED (\E o \in GetOutcomes : FallbackGet(j, o))
    /\ \A j \in Ids : Composed(j) =>
          Outcome(task[j].exc, task[j].reply, task[j].holiday, task[j].template)
              \in OwnOutcomes(j)

\* the fetch of an earlier request is still in flight, and a later /povod
\* has been answered with a holiday after a fetch of its own
C10_Witness ==
    \E i, j \in Ids :
        /\ i < j
        /\ InFlight(i)
        /\ task[j].handler = "handle_prazdnik" /\ task[j].pc = "done" /\ task[j].replied
        /\ task[j].holiday # <<>>

====
